---- MODULE Spec2Model ----
(***************************************************************************)
(* rubot: a game bot for deterministic games.                              *)
(*                                                                         *)
(*   src/src/lib.rs    the Game trait (with the `21 flags` doc test), the  *)
(*                     run conditions Steps/InnerSteps, ToCompletion,      *)
(*                     Depth and Instant                                   *)
(*   src/src/brute.rs  the brute force bot (Bot::select, Bot::minimax)     *)
(*   alpha_beta        declared in lib.rs:16, modelled from spec.md 4.1    *)
(*                     and 4.2 (bounded alpha-beta search, iterative       *)
(*                     deepening driver)                                   *)
(***************************************************************************)
EXTENDS Integers, Sequences, FiniteSets, TLC

VARIABLES game, state, player, cond, pc, depth, order, best, stop, ret, calls,
          last, nstep

vars == <<game, state, player, cond, pc, depth, order, best, stop, ret, calls,
          last, nstep>>

(***************************************************************************)
(* Bounds of the model.                                                    *)
(***************************************************************************)
\* longest line of play of a tree game
MaxPly == 3
\* most actions a node of a tree game offers
MaxBranch == 2
\* fitness values of a tree game are 0..MaxFit
MaxFit == 2
\* length of the fitness table of a tree game
TblLen == 4
\* largest argument of Steps(n) and Depth(n)
MaxN == 4
\* most polls of a run condition the poll harness makes
MaxPolls == 6

\* pile of the `21 flags` game at the start of the doc test
StartFlags == 21
\* most flags one move removes in `21 flags`
MaxTake == 3

\* Option<T::Action>: actions are positive numbers, None is 0
None == 0

Min2(a, b) == IF a < b THEN a ELSE b

\* the element of a one-element set (a value computed once and used often)
Only(S) == CHOOSE x \in S : TRUE

(***************************************************************************)
(* Games.  A tree game is a finite game given by tables: its state is the  *)
(* sequence of actions played so far (nodes are numbered as in a complete  *)
(* MaxBranch-ary tree).  The fitness of a state is an entry of game.fit,   *)
(* the root offers game.root actions, a state MaxPly actions deep offers   *)
(* none, any other state offers between 0 and MaxBranch actions, and       *)
(* game.turn says at which levels the observing player is the acting one.  *)
(***************************************************************************)
RECURSIVE NodeIdx(_)
NodeIdx(s) ==
    IF s = <<>> THEN 0
    ELSE NodeIdx(SubSeq(s, 1, Len(s) - 1)) * MaxBranch + s[Len(s)]

TreeFitness(g, s) == g.fit[(NodeIdx(s) % TblLen) + 1]

TreeArity(g, s) ==
    IF Len(s) >= MaxPly THEN 0
    ELSE IF s = <<>> THEN g.root
    ELSE NodeIdx(s) % (MaxBranch + 1)

Turns == {t \in [0..1 -> BOOLEAN] : t[0] \/ t[1]}

TreeGames ==
    [kind : {"tree"}, fit : [1..TblLen -> 0..MaxFit], root : 0..MaxBranch,
     turn : Turns]

FlagsGame == [kind |-> "flags"]

\* the player a bot of a tree game plays for
Observer == TRUE

\* Game { flags: 21, active_player: true }
FlagsStart == [flags |-> StartFlags, active_player |-> TRUE]

\* Game::remove_flags
remove_flags(st, flags) ==
    [flags |-> st.flags - flags, active_player |-> ~st.active_player]

\* Game::winner (only called on an empty pile)
winner(st) == ~st.active_player

\* Game::actions with the exclusive range 1..min(flags, 3)
actions_exclusive(g, st, p) ==
    IF g.kind = "flags"
    THEN [active |-> (p = st.active_player),
          actions |-> [i \in 1..(Min2(st.flags, MaxTake) - 1) |-> i]]
    ELSE [active |-> g.turn[Len(st) % 2],
          actions |-> [i \in 1..TreeArity(g, st) |-> i]]

\* Game::actions: (active, actions in enumeration order)
actions(g, st, p) ==
    IF g.kind = "flags"
    THEN [active |-> (p = st.active_player),
          actions |-> [i \in 1..Min2(st.flags, MaxTake) |-> i]]
    ELSE [active |-> g.turn[Len(st) % 2],
          actions |-> [i \in 1..TreeArity(g, st) |-> i]]

\* Game::execute: the state after the action and the fitness for player p
execute(g, st, a, p) ==
    IF g.kind = "flags"
    THEN LET nxt == remove_flags(st, a)
         IN [state |-> nxt,
             fitness |-> IF nxt.flags = 0 /\ p = winner(nxt) THEN 1 ELSE 0]
    ELSE LET nxt == Append(st, a)
         IN [state |-> nxt, fitness |-> TreeFitness(g, nxt)]

\* Game::look_ahead: self.clone().execute(action, player)
look_ahead(g, st, a, p) == execute(g, st, a, p).fitness

(***************************************************************************)
(* Run conditions (lib.rs).                                                *)
(***************************************************************************)
Steps(n) == [kind |-> "Steps", n |-> n]
Depth(n) == [kind |-> "Depth", n |-> n]
ToCompletion == [kind |-> "ToCompletion"]

\* IntoRunCondition::into_run_condition
into_run_condition(c) ==
    IF c.kind = "Steps" THEN [kind |-> "InnerSteps", f0 |-> 0, f1 |-> c.n]
    ELSE c

\* a Duration turned into an Instant: the deadline lies `left` polls ahead
\* (Instant::now() only grows, so once a poll finds the deadline passed every
\* later poll does)
Instant(left) == [kind |-> "Instant", left |-> left]

\* RunCondition::step: the condition after the poll and the answer
step(c) ==
    IF c.kind = "InnerSteps"
    THEN [cond |-> [c EXCEPT !.f0 = c.f0 + 1], ans |-> (c.f0 + 1 < c.f1)]
    ELSE IF c.kind = "Instant"
    THEN [cond |-> [c EXCEPT !.left = IF c.left > 0 THEN c.left - 1 ELSE 0],
          ans |-> (c.left > 0)]
    ELSE [cond |-> c, ans |-> TRUE]

\* RunCondition::depth with a ToCompletion that answers false
depth_hook_stops(c, d) ==
    IF c.kind = "Depth"
    THEN [cond |-> c, ans |-> (c.n > d)]
    ELSE IF c.kind = "Instant"
    THEN [cond |-> [c EXCEPT !.left = IF c.left > 0 THEN c.left - 1 ELSE 0],
          ans |-> (c.left > 0)]
    ELSE [cond |-> c, ans |-> c.kind # "ToCompletion"]

\* RunCondition::depth
depth_hook(c, d) ==
    IF c.kind = "Depth"
    THEN [cond |-> c, ans |-> (c.n > d)]
    ELSE IF c.kind = "Instant"
    THEN [cond |-> [c EXCEPT !.left = IF c.left > 0 THEN c.left - 1 ELSE 0],
          ans |-> (c.left > 0)]
    ELSE [cond |-> c, ans |-> TRUE]

(***************************************************************************)
(* The brute force bot (brute.rs).  Every operator also reports the calls  *)
(* of Game::execute and Game::look_ahead it makes.                         *)
(***************************************************************************)
Call(fn, st, a, p) == [fn |-> fn, state |-> st, action |-> a, player |-> p]

RECURSIVE SeqMax(_, _)
SeqMax(f, n) == IF n = 1 THEN f[1] ELSE LET m == SeqMax(f, n - 1)
                                        IN IF f[n] > m THEN f[n] ELSE m

RECURSIVE SeqMin(_, _)
SeqMin(f, n) == IF n = 1 THEN f[1] ELSE LET m == SeqMin(f, n - 1)
                                        IN IF f[n] < m THEN f[n] ELSE m

\* Bot::minimax folding every node with max
RECURSIVE minimax_max(_, _, _, _, _)
minimax_max(g, p, st, a, d) ==
    IF d = 0
    THEN [fitness |-> look_ahead(g, st, a, p),
          calls |-> {Call("look_ahead", st, a, p)}]
    ELSE LET ex == execute(g, st, a, p)
             acts == actions(g, ex.state, p)
             n == Len(acts.actions)
         IN Only({
              [fitness |-> IF n = 0 THEN ex.fitness
                           ELSE SeqMax([i \in 1..n |-> sub[i].fitness], n),
               calls |-> {Call("execute", st, a, p),
                          Call("actions", ex.state, None, p)}
                         \cup UNION {sub[i].calls : i \in 1..n}] :
              sub \in {[i \in 1..n |->
                          minimax_max(g, p, ex.state, acts.actions[i], d - 1)]}})

\* Bot::minimax enumerating the actions before it executes
RECURSIVE minimax_stale(_, _, _, _, _)
minimax_stale(g, p, st, a, d) ==
    IF d = 0
    THEN [fitness |-> look_ahead(g, st, a, p),
          calls |-> {Call("look_ahead", st, a, p)}]
    ELSE LET ex == execute(g, st, a, p)
             acts == actions(g, st, p)
             n == Len(acts.actions)
         IN Only({
              [fitness |-> IF n = 0 THEN ex.fitness
                           ELSE IF acts.active
                           THEN SeqMax([i \in 1..n |-> sub[i].fitness], n)
                           ELSE SeqMin([i \in 1..n |-> sub[i].fitness], n),
               calls |-> {Call("execute", st, a, p),
                          Call("actions", st, None, p)}
                         \cup UNION {sub[i].calls : i \in 1..n}] :
              sub \in {[i \in 1..n |->
                          minimax_stale(g, p, ex.state, acts.actions[i], d - 1)]}})

\* Bot::minimax with unwrap_or_default() for unwrap_or(fitness)
RECURSIVE minimax_default(_, _, _, _, _)
minimax_default(g, p, st, a, d) ==
    IF d = 0
    THEN [fitness |-> look_ahead(g, st, a, p),
          calls |-> {Call("look_ahead", st, a, p)}]
    ELSE LET ex == execute(g, st, a, p)
             acts == actions(g, ex.state, p)
             n == Len(acts.actions)
         IN Only({
              [fitness |-> IF n = 0 THEN 0
                           ELSE IF acts.active
                           THEN SeqMax([i \in 1..n |-> sub[i].fitness], n)
                           ELSE SeqMin([i \in 1..n |-> sub[i].fitness], n),
               calls |-> {Call("execute", st, a, p),
                          Call("actions", ex.state, None, p)}
                         \cup UNION {sub[i].calls : i \in 1..n}] :
              sub \in {[i \in 1..n |->
                          minimax_default(g, p, ex.state, acts.actions[i], d - 1)]}})

\* Bot::minimax
RECURSIVE minimax(_, _, _, _, _)
minimax(g, p, st, a, d) ==
    IF d = 0
    THEN [fitness |-> look_ahead(g, st, a, p),
          calls |-> {Call("look_ahead", st, a, p)}]
    ELSE LET ex == execute(g, st, a, p)
             acts == actions(g, ex.state, p)
             n == Len(acts.actions)
         IN Only({
              [fitness |-> IF n = 0 THEN ex.fitness
                           ELSE IF acts.active
                           THEN SeqMax([i \in 1..n |-> sub[i].fitness], n)
                           ELSE SeqMin([i \in 1..n |-> sub[i].fitness], n),
               calls |-> {Call("execute", st, a, p),
                          Call("actions", ex.state, None, p)}
                         \cup UNION {sub[i].calls : i \in 1..n}] :
              sub \in {[i \in 1..n |->
                          minimax(g, p, ex.state, acts.actions[i], d - 1)]}})

\* the loop of Bot::select with `new >= best.1`
RECURSIVE select_loop_last(_, _, _)
select_loop_last(fit, i, b) ==
    IF i > Len(fit) THEN b
    ELSE select_loop_last(fit, i + 1, IF fit[i] >= fit[b] THEN i ELSE b)

\* the `for action in actions` loop of Bot::select: index of the best action
RECURSIVE select_loop(_, _, _)
select_loop(fit, i, b) ==
    IF i > Len(fit) THEN b
    ELSE select_loop(fit, i + 1, IF fit[i] > fit[b] THEN i ELSE b)

\* Bot::select without `if !active { return None }`
select_inactive(g, p, st, d) ==
    LET acts == actions(g, st, p)
        n == Len(acts.actions)
        sub == [i \in 1..n |-> minimax(g, p, st, acts.actions[i], d)]
        fit == [i \in 1..n |-> sub[i].fitness]
        b == select_loop(fit, 2, 1)
        asked == {Call("actions", st, None, p)}
    IN IF n = 0 THEN [ret |-> None, value |-> 0, calls |-> asked]
       ELSE [ret |-> acts.actions[b], value |-> fit[b],
             calls |-> asked \cup UNION {sub[i].calls : i \in 1..n}]

\* Bot::select: the returned Option (ret), the fitness of the best action
\* (best.1) and the calls made
select(g, p, st, d) ==
    LET acts == actions(g, st, p)
        n == Len(acts.actions)
        sub == [i \in 1..n |-> minimax(g, p, st, acts.actions[i], d)]
        fit == [i \in 1..n |-> sub[i].fitness]
        b == select_loop(fit, 2, 1)
        asked == {Call("actions", st, None, p)}
    IN IF ~acts.active THEN [ret |-> None, value |-> 0, calls |-> asked]
       ELSE IF n = 0 THEN [ret |-> None, value |-> 0, calls |-> asked]
       ELSE [ret |-> acts.actions[b], value |-> fit[b],
             calls |-> asked \cup UNION {sub[i].calls : i \in 1..n}]

(***************************************************************************)
(* The alpha-beta bot (module alpha_beta, spec.md 4.1 and 4.2).            *)
(***************************************************************************)
\* a bound of a SearchWindow: absent, or a fitness
NoBound == [has |-> FALSE, v |-> 0]
Bound(v) == [has |-> TRUE, v |-> v]

\* the outcome of a node before its first child is evaluated
NoOutcome(c) ==
    [has |-> FALSE, fitness |-> 0, action |-> None, exhausted |-> TRUE,
     aborted |-> FALSE, cond |-> c]

\* the remaining siblings of a node are skipped
Pruned(active, lo, hi, acc) ==
    /\ acc.has
    /\ IF active THEN hi.has /\ acc.fitness >= hi.v
                 ELSE lo.has /\ acc.fitness <= lo.v

\* the window a child of the node is searched with
ChildLo(active, lo, acc) ==
    IF active /\ acc.has /\ (~lo.has \/ acc.fitness > lo.v)
    THEN Bound(acc.fitness) ELSE lo

ChildHi(active, hi, acc) ==
    IF ~active /\ acc.has /\ (~hi.has \/ acc.fitness < hi.v)
    THEN Bound(acc.fitness) ELSE hi

\* a child is folded into the running best of its node
Better(active, acc, fitness) ==
    \/ ~acc.has
    \/ IF active THEN fitness > acc.fitness ELSE fitness < acc.fitness

\* the outcome r of the action a folded into the outcome acc of its node;
\* an aborted child aborts the node
Fold(active, acc, a, r) ==
    IF r.aborted
    THEN [acc EXCEPT !.aborted = TRUE, !.cond = r.cond]
    ELSE [has |-> TRUE,
          fitness |-> IF Better(active, acc, r.fitness) THEN r.fitness
                      ELSE acc.fitness,
          action |-> IF Better(active, acc, r.fitness) THEN a ELSE acc.action,
          exhausted |-> acc.exhausted /\ r.exhausted,
          aborted |-> FALSE,
          cond |-> r.cond]

\* Bounded search: alpha_beta folds the actions acts[i..] of state st into
\* acc, alpha_beta_action evaluates one action with depth budget d, and
\* alpha_beta_expand is its part after the step poll and the execute.
\* (Only({e : x \in {v}}) is e with x standing for the value of v.)
RECURSIVE alpha_beta(_, _, _, _, _, _, _, _, _, _)
RECURSIVE alpha_beta_action(_, _, _, _, _, _, _, _)
RECURSIVE alpha_beta_expand(_, _, _, _, _, _, _, _)
alpha_beta_expand(g, p, d, lo, hi, poll, ex, acts) ==
    IF ~poll.ans
    THEN [NoOutcome(poll.cond) EXCEPT !.aborted = TRUE]
    ELSE IF Len(acts.actions) = 0
    THEN [NoOutcome(poll.cond) EXCEPT !.has = TRUE, !.fitness = ex.fitness]
    ELSE alpha_beta(g, p, ex.state, acts.actions, acts.active, d - 1,
                    lo, hi, 1, NoOutcome(poll.cond))

alpha_beta_action(g, p, st, a, d, lo, hi, c) ==
    IF d = 0
    THEN [NoOutcome(c) EXCEPT !.has = TRUE, !.exhausted = FALSE,
                              !.fitness = look_ahead(g, st, a, p)]
    ELSE Only({alpha_beta_expand(g, p, d, lo, hi, poll, ex, acts) :
                 poll \in {step(c)},
                 ex \in {execute(g, st, a, p)},
                 acts \in {actions(g, execute(g, st, a, p).state, p)}})

alpha_beta(g, p, st, acts, active, d, lo, hi, i, acc) ==
    IF i > Len(acts) \/ acc.aborted \/ Pruned(active, lo, hi, acc) THEN acc
    ELSE Only({alpha_beta(g, p, st, acts, active, d, lo, hi, i + 1, nxt) :
                 nxt \in {Fold(active, acc, acts[i], r) :
                    r \in {alpha_beta_action(g, p, st, acts[i], d, w.lo, w.hi,
                                             acc.cond) :
                       w \in {[lo |-> ChildLo(active, lo, acc),
                               hi |-> ChildHi(active, hi, acc)]}}}})

\* a tier: the bounded search of the root with an unbounded window
Tier(g, p, st, acts, d, c) ==
    alpha_beta(g, p, st, acts, TRUE, d, NoBound, NoBound, 1, NoOutcome(c))

\* the action a moved to the front of the root's action order
MoveToFront(acts, a) ==
    <<a>> \o SelectSeq(acts, LAMBDA x : x # a)

(***************************************************************************)
(* State.                                                                  *)
(*   game, state, player  the game, its current state, the bot's player    *)
(*   cond                 the run condition of the select call in progress *)
(*   pc                   "idle", or "tier" inside alpha_beta's select     *)
(*   depth, order, best   the driver's tier, root action order and         *)
(*                        committed best action                            *)
(*   stop                 why the last select of alpha_beta returned       *)
(*   ret, calls           what the last call returned, and the calls of    *)
(*                        execute and look_ahead it made; a bot is called  *)
(*                        on a state once (ret = NoRet before the call)    *)
(*   last, nstep          the last poll of cond made by the poll harness   *)
(*                        and the number of its step polls                 *)
(***************************************************************************)
MaxTier == StartFlags + MaxPly

Policies ==
    {ToCompletion} \cup {Steps(n) : n \in 0..MaxN} \cup {Depth(n) : n \in 0..MaxN}
    \cup {Instant(n) : n \in 0..MaxN}

NoRet == [bot |-> "none", depth |-> 0, action |-> None, fitness |-> 0]
NoPoll == [op |-> "none", arg |-> 0, ans |-> TRUE, before |-> ToCompletion]

Idle ==
    /\ cond = ToCompletion
    /\ pc = "idle"
    /\ depth = 0
    /\ order = <<>>
    /\ best = None
    /\ stop = "none"
    /\ ret = NoRet
    /\ calls = {}

Init ==
    /\ game \in TreeGames
    /\ state = <<>>
    /\ player = Observer
    /\ Idle
    /\ last = NoPoll
    /\ nstep = 0

\* brute::Bot::select(&state, d)
BruteSelect(d) ==
    /\ pc = "idle" /\ ret = NoRet
    /\ \E r \in {select(game, player, state, d)} :
          /\ ret' = [bot |-> "brute", depth |-> d, action |-> r.ret,
                     fitness |-> r.value]
          /\ calls' = r.calls
    /\ cond' = ToCompletion
    /\ depth' = 0
    /\ order' = <<>>
    /\ best' = None
    /\ stop' = "none"
    /\ UNCHANGED <<game, state, player, pc, last, nstep>>

\* the bounded search of the root at depth d with an unbounded window
Search(d) ==
    /\ pc = "idle" /\ ret = NoRet
    /\ \E acts \in {actions(game, state, player)} :
          /\ acts.active
          /\ Len(acts.actions) > 0
          /\ \E r \in {Tier(game, player, state, acts.actions, d, ToCompletion)} :
                ret' = [bot |-> "search", depth |-> d, action |-> r.action,
                        fitness |-> r.fitness]
    /\ calls' = {}
    /\ cond' = ToCompletion
    /\ depth' = 0
    /\ order' = <<>>
    /\ best' = None
    /\ stop' = "none"
    /\ UNCHANGED <<game, state, player, pc, last, nstep>>

\* alpha_beta::Bot::select(&state, policy), up to its loop over the tiers
SelectBegin(policy) ==
    /\ pc = "idle" /\ ret = NoRet
    /\ LET acts == actions(game, state, player)
       IN IF ~acts.active \/ Len(acts.actions) = 0
          THEN /\ pc' = "idle"
               /\ stop' = IF ~acts.active THEN "inactive" ELSE "empty"
               /\ ret' = [bot |-> "alpha_beta", depth |-> 0, action |-> None,
                          fitness |-> 0]
               /\ order' = <<>>
               /\ depth' = 0
          ELSE /\ pc' = "tier"
               /\ stop' = "none"
               /\ ret' = NoRet
               /\ order' = acts.actions
               /\ depth' = 1
    /\ cond' = into_run_condition(policy)
    /\ best' = None
    /\ calls' = {}
    /\ UNCHANGED <<game, state, player, last, nstep>>

\* select returns the committed best action
Return(why, c) ==
    /\ pc' = "idle"
    /\ stop' = why
    /\ cond' = c
    /\ ret' = [bot |-> "alpha_beta", depth |-> depth, action |-> best,
               fitness |-> 0]
    /\ UNCHANGED <<depth, order, best>>

\* an aborted tier that commits what it found so far
AbortCommit(r) ==
    /\ pc' = "idle"
    /\ stop' = "step"
    /\ cond' = r.cond
    /\ ret' = [bot |-> "alpha_beta", depth |-> depth,
               action |-> IF r.has THEN r.action ELSE best, fitness |-> 0]
    /\ UNCHANGED <<depth, order, best>>

\* a tier aborted by a step poll is discarded
Abort(r) == Return("step", r.cond)

\* one round of the loop of alpha_beta::Bot::select: the tier `depth`
SelectTier ==
    /\ pc = "tier"
    /\ depth <= MaxTier
    /\ \E hook \in {depth_hook(cond, depth)} :
       IF ~hook.ans THEN Return("depth", hook.cond)
       ELSE \E r \in {Tier(game, player, state, order, depth, hook.cond)} :
            IF r.aborted THEN Abort(r)
            ELSE /\ best' = r.action
                 /\ order' = MoveToFront(order, r.action)
                 /\ cond' = r.cond
                 /\ IF r.exhausted
                    THEN /\ pc' = "idle"
                         /\ stop' = "exhausted"
                         /\ ret' = [bot |-> "alpha_beta", depth |-> depth,
                                    action |-> r.action, fitness |-> 0]
                         /\ depth' = depth
                    ELSE /\ depth' = depth + 1
                         /\ UNCHANGED <<pc, stop, ret>>
    /\ UNCHANGED <<game, state, player, calls, last, nstep>>

(***************************************************************************)
(* The main loop of the `21 flags` doc test (lib.rs:83-97): player_a and   *)
(* player_b select in turn with ToCompletion until no flag is left.        *)
(***************************************************************************)
InitFlags ==
    /\ game = FlagsGame
    /\ state = FlagsStart
    /\ player = TRUE
    /\ Idle
    /\ last = NoPoll
    /\ nstep = 0

\* player_a.select(&game, ToCompletion) or player_b.select(&game, ToCompletion)
FlagsSelect ==
    /\ state.flags > 0
    /\ SelectBegin(ToCompletion)

\* game.remove_flags(....unwrap()); the other bot is next
FlagsRemove ==
    /\ pc = "idle"
    /\ ret.bot = "alpha_beta"
    /\ ret.action # None
    /\ state' = remove_flags(state, ret.action)
    /\ player' = ~player
    /\ cond' = ToCompletion
    /\ depth' = 0
    /\ order' = <<>>
    /\ best' = None
    /\ stop' = "none"
    /\ ret' = NoRet
    /\ UNCHANGED <<game, pc, calls, last, nstep>>

NextFlags == FlagsSelect \/ SelectTier \/ FlagsRemove

SpecFlags == InitFlags /\ [][NextFlags]_vars

(***************************************************************************)
(* A harness that polls a run condition: any sequence of step() and        *)
(* depth(d) polls of a condition made by into_run_condition.               *)
(***************************************************************************)
InitCond ==
    /\ game = FlagsGame
    /\ state = FlagsStart
    /\ player = TRUE
    /\ cond \in {into_run_condition(policy) : policy \in Policies}
    /\ pc = "idle"
    /\ depth = 0
    /\ order = <<>>
    /\ best = None
    /\ stop = "none"
    /\ ret = NoRet
    /\ calls = {}
    /\ last = NoPoll
    /\ nstep = 0

PollStep ==
    /\ nstep < MaxPolls
    /\ \E r \in {step(cond)} :
          /\ cond' = r.cond
          /\ last' = [op |-> "step", arg |-> 0, ans |-> r.ans, before |-> cond]
    /\ nstep' = nstep + 1
    /\ UNCHANGED <<game, state, player, pc, depth, order, best, stop, ret, calls>>

PollDepth(d) ==
    /\ \E r \in {depth_hook(cond, d)} :
          /\ cond' = r.cond
          /\ last' = [op |-> "depth", arg |-> d, ans |-> r.ans, before |-> cond]
    /\ UNCHANGED <<game, state, player, pc, depth, order, best, stop, ret, calls,
                   nstep>>

NextCond == PollStep \/ \E d \in 0..(MaxN + 1) : PollDepth(d)

SpecCond == InitCond /\ [][NextCond]_vars

(***************************************************************************)
(* select under ToCompletion.  The loop of select runs on once started:    *)
(* weak fairness of SelectTier.                                            *)
(***************************************************************************)
NextCompletion == SelectBegin(ToCompletion) \/ SelectTier

SpecCompletion == Init /\ [][NextCompletion]_vars /\ WF_vars(SelectTier)

Next ==
    \/ \E d \in 0..MaxPly : BruteSelect(d)
    \/ \E d \in 0..MaxPly : Search(d)
    \/ \E policy \in Policies : SelectBegin(policy)
    \/ SelectTier

Spec == Init /\ [][Next]_vars

(***************************************************************************)
(* Properties.                                                             *)
(***************************************************************************)
RootActs == actions(game, state, player)

\* minimax(state, action, d) of the brute force baseline
BruteFitness(a, d) == minimax(game, player, state, a, d).fitness

\* the maximum over the root actions of minimax(state, action, d)
BruteValue(d) ==
    LET n == Len(RootActs.actions)
    IN SeqMax([i \in 1..n |-> BruteFitness(RootActs.actions[i], d)], n)

\* the first action, in the game's enumeration order, of the best fitness
FirstBest(d) ==
    LET acts == RootActs.actions
        i == CHOOSE i \in 1..Len(acts) :
                /\ BruteFitness(acts[i], d) = BruteValue(d)
                /\ \A j \in 1..(i - 1) : BruteFitness(acts[j], d) # BruteValue(d)
    IN acts[i]

\* the number of actions on the longest line of play from state st
RECURSIVE Height(_)
Height(st) ==
    LET acts == actions(game, st, player).actions
        n == Len(acts)
    IN IF n = 0 THEN 0
       ELSE 1 + SeqMax([i \in 1..n |->
                          Height(execute(game, st, acts[i], player).state)], n)

\* tier k of a select call none of whose tiers 1..k is aborted, and the
\* root's action order at its start
RECURSIVE CompletedOrder(_)
RECURSIVE CompletedTier(_)
CompletedOrder(k) ==
    IF k = 1 THEN RootActs.actions
    ELSE MoveToFront(CompletedOrder(k - 1), CompletedTier(k - 1).action)

CompletedTier(k) ==
    Tier(game, player, state, CompletedOrder(k), k, ToCompletion)

\* the last tier of the returned select call that ran to its end
LastTier == IF stop = "exhausted" THEN depth ELSE depth - 1

Returned(bot) == pc = "idle" /\ ret.bot = bot

\* C1: the bounded search at depth D with an unbounded root window returns
\* an action and a fitness such that the fitness is the maximum over the
\* root actions of the brute force minimax at depth D, and the action is one
\* of the actions minimax gives that maximum.
C1_OracleEquivalence ==
    Returned("search") =>
        /\ ret.fitness = BruteValue(ret.depth)
        /\ BruteFitness(ret.action, ret.depth) = BruteValue(ret.depth)

C1_Witness ==
    /\ Returned("search")
    /\ ret.depth >= 2
    /\ \E i, j \in 1..Len(RootActs.actions) :
          BruteFitness(RootActs.actions[i], ret.depth)
            < BruteFitness(RootActs.actions[j], ret.depth)

\* C2 as claimed: select (of either bot, under every policy) returns None
\* exactly when the player is not the acting one or there is no action.
C2_NoneExactly ==
    (Returned("brute") \/ Returned("alpha_beta")) =>
        (ret.action = None <=> (~RootActs.active \/ Len(RootActs.actions) = 0))

\* C2 amended: select returns None when the player is not the acting one
\* (even with actions to choose from) and when there is no action; otherwise
\* brute force select returns an action, and alpha_beta's select returns an
\* action unless the policy stopped it before its first tier ran to its end.
C2_NoneAmended ==
    /\ Returned("brute") =>
          (ret.action = None <=> (~RootActs.active \/ Len(RootActs.actions) = 0))
    /\ Returned("alpha_beta") =>
          (ret.action = None <=>
              \/ ~RootActs.active
              \/ Len(RootActs.actions) = 0
              \/ (stop \in {"depth", "step"} /\ depth = 1))

C2_Witness ==
    /\ Returned("brute")
    /\ ret.action = None
    /\ ~RootActs.active
    /\ Len(RootActs.actions) > 0

\* C3 as claimed: the condition made from Steps(N) answers step() with true
\* on each of the first N polls and with false on every later poll; depth()
\* answers true and leaves the condition as it was.
C3_StepsFirstN ==
    cond.kind = "InnerSteps" =>
        /\ last.op = "step" => (last.ans <=> nstep <= cond.f1)
        /\ last.op = "depth" => (last.ans /\ cond = last.before)

\* C4 as claimed: Depth(n) answers step() with true, and depth(d) with false
\* exactly when d is bigger than n.
C4_DepthCeiling ==
    cond.kind = "Depth" =>
        /\ last.op = "step" => last.ans
        /\ last.op = "depth" => (last.ans <=> ~(last.arg > cond.n))

\* C5: in `21 flags`, with both players selecting under ToCompletion, every
\* select yields an action (the unwrap() succeeds), the first mover removes
\* exactly 1 flag from the pile of 21, and the game ends with the first
\* mover as the winner.
C5_FirstMoverWins ==
    /\ Returned("alpha_beta") => ret.action # None
    /\ (state = FlagsStart /\ Returned("alpha_beta")) => ret.action = 1
    /\ state.flags = 0 => ~state.active_player = TRUE

C5_Witness == state.flags = 0

\* C6: the committed best of the driver is empty or the result of the tier
\* before the current one, run to its end; a select call stopped by a step
\* poll in tier d or by the depth poll of tier d returns the result of tier
\* d - 1 (None when d = 1).
C6_CommittedIsCompleted ==
    /\ pc = "tier" =>
          best = IF depth = 1 THEN None ELSE CompletedTier(depth - 1).action
    /\ (Returned("alpha_beta") /\ stop \in {"depth", "step"}) =>
          ret.action = IF depth = 1 THEN None
                       ELSE CompletedTier(depth - 1).action

C6_Witness ==
    /\ Returned("alpha_beta")
    /\ stop = "step"
    /\ depth = 2
    /\ ret.action # None

\* C7: every execute and look_ahead call of the brute force bot is for the
\* bot's player and passes an action that an actions() call of the bot on
\* that very state, for that player, yielded.
C7_ActionsFromSameState ==
    Returned("brute") =>
        \A c \in calls :
            c.fn \in {"execute", "look_ahead"} =>
                /\ c.player = player
                /\ \E q \in calls :
                      /\ q.fn = "actions"
                      /\ q.state = c.state
                      /\ q.player = c.player
                /\ \E i \in 1..Len(actions(game, c.state, c.player).actions) :
                      actions(game, c.state, c.player).actions[i] = c.action

C7_Witness ==
    /\ Returned("brute")
    /\ ret.depth >= 2
    /\ \E c \in calls : c.fn = "execute" /\ Len(c.state) >= 1
    /\ \E c \in calls : c.fn = "look_ahead" /\ Len(c.state) >= 2

C9_Monotone ==
    (Returned("brute") /\ ret.action # None /\ ret.depth >= 1) =>
        ret.fitness >= select(game, player, state, ret.depth - 1).value

\* C9 amended: once the depth reaches the number of actions of the longest
\* line of play from the state, one more level of depth leaves the
\* discovered fitness as it is (below that depth it may also decrease).
C9_StableAmended ==
    (Returned("brute") /\ ret.action # None /\ ret.depth >= 1
        /\ ret.depth >= Height(state)) =>
        ret.fitness = select(game, player, state, ret.depth - 1).value

C9_Witness ==
    /\ Returned("brute")
    /\ ret.action # None
    /\ Height(state) = MaxPly
    /\ ret.depth = MaxPly
    /\ select(game, player, state, 1).value # ret.fitness

\* C10: a select call under ToCompletion on a finite game returns: it stops
\* at the first tier that ran to its end with the tree exhausted, although
\* the policy permits a further tier, and returns that tier's action.
C10_Terminates ==
    /\ (pc = "tier") ~> (Returned("alpha_beta") /\ stop = "exhausted")
    /\ []((Returned("alpha_beta") /\ RootActs.active
                /\ Len(RootActs.actions) > 0) =>
            /\ stop = "exhausted"
            /\ ret.action = CompletedTier(depth).action
            /\ CompletedTier(depth).exhausted
            /\ \A k \in 1..(depth - 1) : ~CompletedTier(k).exhausted
            /\ depth_hook(cond, depth + 1).ans)

C10_Witness ==
    /\ Returned("alpha_beta")
    /\ stop = "exhausted"
    /\ depth = MaxPly

====
